---- MODULE Spec2Model ----
(***************************************************************************)
(* Flood-screenshot analysis (analyze_screenshots.py) and the screenshot   *)
(* naming scheme of its producer (automated_test.py).                      *)
(*                                                                         *)
(*   SpecLoop : analyze_image, one step per iteration of the sampling loop *)
(*   SpecName : file name built by the producer, parsed back by main       *)
(*   Spec     : main, run repeatedly on one screenshot directory           *)
(*                                                                         *)
(* Strings are sequences of one-character strings, so that replace,        *)
(* rsplit, lstrip, startswith, int and sorted are computed as Python       *)
(* computes them.  Ratios are kept exact: the blue_ratio field of a record *)
(* is held in units of 1/10000 (round(ratio, 4) * 10000).                  *)
(***************************************************************************)
EXTENDS Integers, Sequences, FiniteSets, TLC

VARIABLES
  \* analyze_image
  img, x, y, blue_pixels, total_pixels, avg_r, avg_g, avg_b, apc, record,
  \* naming round trip
  name, level, filename, parsed, npc,
  \* main
  dir, pc, mode, listing, todo, classified, results, written, runlog

avars == <<img, x, y, blue_pixels, total_pixels, avg_r, avg_g, avg_b, apc, record>>
nvars == <<name, level, filename, parsed, npc>>
mvars == <<dir, pc, mode, listing, todo, classified, results, written, runlog>>
vars == <<avars, nvars, mvars>>

----------------------------------------------------------------------------
(* Bounds *)

MaxDim == 101        \* largest image width/height (one past the window)
MaxNameLen == 5      \* longest scenario name of the round trip
MaxLevel == 10000    \* largest water level of the round trip
MaxFiles == 3        \* most files in the screenshot directory at start
MaxRuns == 2         \* runs of main in succession

----------------------------------------------------------------------------
(* Arithmetic helpers *)

Min(a, b) == IF a < b THEN a ELSE b

\* Python round() of the exact quotient num/den (den > 0, num >= 0): nearest
\* integer, an exact tie going to the even neighbour.
RoundHalfEven(num, den) ==
  LET q == num \div den
      r2 == 2 * (num % den)
  IN IF r2 > den THEN q + 1
     ELSE IF r2 < den THEN q
     ELSE IF q % 2 = 0 THEN q ELSE q + 1

----------------------------------------------------------------------------
(* Images *)

box_size == 50

Blue == <<0, 0, 255>>
White == <<255, 255, 255>>

\* The colours at and next to each threshold of the flood-colour predicate.
Colours == { <<0, 0, 100>>, <<0, 0, 101>>, Blue, White,
             <<100, 0, 130>>, <<100, 0, 131>>,
             <<0, 100, 110>>, <<0, 100, 111>> }

\* An image: w x h pixels of `bands` channels.  In the scan order of the
\* sampling loop (x outer, y inner) its first nfirst pixels have colour c1
\* and the others colour c2.
Image(w, h, bands, nfirst, c1, c2) ==
  [w |-> w, h |-> h, bands |-> bands, nfirst |-> nfirst, c1 |-> c1, c2 |-> c2]

Uniform(w, h, bands, c) == Image(w, h, bands, 0, c, c)

SizeDims == {1, 10, 100, MaxDim}

SizeImages == { Uniform(w, h, 3, Blue) : w \in SizeDims, h \in SizeDims }

ColourImages == { Uniform(10, 1, 3, c) : c \in Colours }

BandImages == { Uniform(10, 10, b, Blue) : b \in {1, 2, 4} }
                \cup { Uniform(1, 1, 1, White), Uniform(MaxDim, 1, 2, White) }

MixedImages ==
  { Image(10, 1, 3, k, Blue, White) : k \in {1, 2} }
    \cup { Image(41, 49, 3, k, Blue, White) : k \in {200, 201, 202} }
    \cup { Image(10, 10, 4, k, <<0, 100, 111>>, <<100, 0, 130>>) : k \in {10, 11} }
    \cup { Image(MaxDim, 100, 3, k, Blue, <<0, 0, 100>>) : k \in {1000, 1001} }

Images == SizeImages \cup ColourImages \cup BandImages \cup MixedImages

\* File content that no image decoder accepts.
Corrupt == Image(0, 0, 0, 0, <<0, 0, 0>>, <<0, 0, 0>>)

Contents == Images \cup {Corrupt}

IsImage(c) == c.bands > 0

\* img.getpixel((px, py)): a tuple of `bands` values for a multi-band image,
\* a bare number for a single-band image (modes L, P, 1, I, F).
getpixel(im, px, py) ==
  LET c == IF px * im.h + py < im.nfirst THEN im.c1 ELSE im.c2
      four == <<c[1], c[2], c[3], 255>>
  IN [istuple |-> im.bands > 1,
      chan |-> IF im.bands = 2 THEN <<c[1], 255>> ELSE SubSeq(four, 1, im.bands)]

----------------------------------------------------------------------------
(* analyze_image *)

\* Mutant: the upper bounds taken inclusive.
InBounds_inclusive(px, py, w, h) == 0 <= px /\ px <= w /\ 0 <= py /\ py <= h

\* 0 <= x < width and 0 <= y < height
InBounds(px, py, w, h) == 0 <= px /\ px < w /\ 0 <= py /\ py < h

\* Mutant: the brightness threshold taken non-strict.
IsBlue_nonstrict(r, g, b) == b >= 100 /\ 10 * b > 13 * r /\ 10 * b > 11 * g

\* b > 100 and b > r * 1.3 and b > g * 1.1.  The factors are doubles; on the
\* channel values 0..255 the double comparisons agree with the exact ones
\* 10b > 13r and 10b > 11g.
IsBlue(r, g, b) == b > 100 /\ 10 * b > 13 * r /\ 10 * b > 11 * g

\* The running counters of the loop; err is set when the body raises.
Acc0 == [blue_pixels |-> 0, total_pixels |-> 0,
         avg_r |-> 0, avg_g |-> 0, avg_b |-> 0, err |-> ""]

TypeErrorText == "object of type 'int' has no len()"
DecodeErrorText == "cannot identify image file"

\* Mutant: total_pixels counted in the else branch of the colour test.
CountPixel_else(acc, r, g, b) ==
  [acc EXCEPT !.avg_r = @ + r, !.avg_g = @ + g, !.avg_b = @ + b,
              !.total_pixels = IF b > 100 /\ 10 * b > 13 * r /\ 10 * b > 11 * g
                               THEN @ ELSE @ + 1,
              !.blue_pixels = IF b > 100 /\ 10 * b > 13 * r /\ 10 * b > 11 * g
                              THEN @ + 1 ELSE @]

\* The body of the inner loop for one pixel with at least 3 channels.
CountPixel(acc, r, g, b) ==
  [acc EXCEPT !.avg_r = @ + r, !.avg_g = @ + g, !.avg_b = @ + b,
              !.total_pixels = @ + 1,
              !.blue_pixels = IF IsBlue(r, g, b) THEN @ + 1 ELSE @]

\* The body of the inner loop at coordinate (px, py).
SampleStep(acc, im, px, py) ==
  IF ~InBounds(px, py, im.w, im.h) THEN acc
  ELSE LET pixel == getpixel(im, px, py) IN
       IF ~pixel.istuple THEN [acc EXCEPT !.err = TypeErrorText]
       ELSE IF Len(pixel.chan) >= 3
            THEN CountPixel(acc, pixel.chan[1], pixel.chan[2], pixel.chan[3])
            ELSE acc

\* Mutant: the flood threshold taken non-strict.
HasFlooding_nonstrict(blue, total) == total > 0 /\ 10 * blue >= total

\* blue_ratio > 0.1 on the unrounded quotient blue/total (0 when total = 0).
\* The double quotient exceeds the double 0.1 exactly when 10*blue > total.
HasFlooding(blue, total) == total > 0 /\ 10 * blue > total

\* round(blue_ratio, 4) in units of 1/10000.  An exact tie needs
\* 32 | total; it goes to the even neighbour when the quotient is a binary
\* fraction, and otherwise the way the nearest double lies.  No image of
\* Images samples a multiple of 32 pixels.
RoundedRatio(blue, total) ==
  IF total > 0 THEN RoundHalfEven(10000 * blue, total) ELSE 0

\* round(avg) of one channel sum.
RoundedAvg(sum, total) == IF total > 0 THEN RoundHalfEven(sum, total) ELSE 0

\* The record returned after the loop.
SuccessRecord(acc) ==
  [blue_pixels |-> acc.blue_pixels,
   total_pixels |-> acc.total_pixels,
   blue_ratio |-> RoundedRatio(acc.blue_pixels, acc.total_pixels),
   avg_color |-> <<RoundedAvg(acc.avg_r, acc.total_pixels),
                   RoundedAvg(acc.avg_g, acc.total_pixels),
                   RoundedAvg(acc.avg_b, acc.total_pixels)>>,
   has_flooding |-> HasFlooding(acc.blue_pixels, acc.total_pixels)]

ErrorRecord(text) == [error |-> text]

IsError(rec) == "error" \in DOMAIN rec

center_x(im) == im.w \div 2
center_y(im) == im.h \div 2

\* The inner loop for one px over py = lo .. hi in ascending order, stopped
\* by the first exception (the range is folded by halves to keep the
\* evaluation shallow; the order of the iterations is that of the loop).
RECURSIVE ScanColumn(_, _, _, _, _)
ScanColumn(a, im, px, lo, hi) ==
  IF a.err # "" \/ lo > hi THEN a
  ELSE IF lo = hi THEN SampleStep(a, im, px, lo)
  ELSE LET mid == (lo + hi) \div 2
       IN ScanColumn(ScanColumn(a, im, px, lo, mid), im, px, mid + 1, hi)

\* The outer loop over px = lo .. hi in ascending order.
RECURSIVE ScanRows(_, _, _, _)
ScanRows(a, im, lo, hi) ==
  IF a.err # "" \/ lo > hi THEN a
  ELSE IF lo = hi
       THEN ScanColumn(a, im, lo, center_y(im) - box_size, center_y(im) + box_size - 1)
  ELSE LET mid == (lo + hi) \div 2
       IN ScanRows(ScanRows(a, im, lo, mid), im, mid + 1, hi)

\* analyze_image(filepath) on a file with content c, as one call.
analyze_image(c) ==
  IF ~IsImage(c) THEN ErrorRecord(DecodeErrorText)
  ELSE LET a == ScanRows(Acc0, c, center_x(c) - box_size, center_x(c) + box_size - 1) IN
       IF a.err # "" THEN ErrorRecord(a.err) ELSE SuccessRecord(a)

(* analyze_image, one step per loop iteration *)

NoImage == Corrupt
NoRecord == [none |-> TRUE]

acc == [blue_pixels |-> blue_pixels, total_pixels |-> total_pixels,
        avg_r |-> avg_r, avg_g |-> avg_g, avg_b |-> avg_b, err |-> ""]

SetAcc(a) ==
  /\ blue_pixels' = a.blue_pixels
  /\ total_pixels' = a.total_pixels
  /\ avg_r' = a.avg_r
  /\ avg_g' = a.avg_g
  /\ avg_b' = a.avg_b

LoopInit ==
  /\ img \in Contents
  /\ x = 0 /\ y = 0
  /\ blue_pixels = 0 /\ total_pixels = 0
  /\ avg_r = 0 /\ avg_g = 0 /\ avg_b = 0
  /\ apc = "open"
  /\ record = NoRecord
  /\ name = <<>> /\ level = 0 /\ filename = <<>>
  /\ parsed = NoRecord /\ npc = "idle"
  /\ dir = <<>> /\ pc = "idle" /\ mode = "" /\ listing = {} /\ todo = <<>>
  /\ classified = <<>> /\ results = <<>> /\ written = <<>> /\ runlog = <<>>

\* Image.open fails: the except clause returns the error record.
OpenFails ==
  /\ apc = "open" /\ ~IsImage(img)
  /\ apc' = "done"
  /\ record' = ErrorRecord(DecodeErrorText)
  /\ UNCHANGED <<img, x, y, blue_pixels, total_pixels, avg_r, avg_g, avg_b>>
  /\ UNCHANGED <<nvars, mvars>>

\* Image.open succeeds: centre, counters, first coordinate of the loops.
Open ==
  /\ apc = "open" /\ IsImage(img)
  /\ x' = center_x(img) - box_size
  /\ y' = center_y(img) - box_size
  /\ SetAcc(Acc0)
  /\ apc' = "loop"
  /\ UNCHANGED <<img, record>>
  /\ UNCHANGED <<nvars, mvars>>

\* One iteration of the inner loop, then the next coordinate.
Sample ==
  /\ apc = "loop"
  /\ LET a == SampleStep(acc, img, x, y)
         lastY == y + 1 >= center_y(img) + box_size
         lastX == x + 1 >= center_x(img) + box_size
     IN /\ SetAcc(a)
        /\ IF a.err # ""
           THEN /\ apc' = "except"
                /\ record' = ErrorRecord(a.err)
                /\ UNCHANGED <<x, y>>
           ELSE /\ record' = record
                /\ y' = IF lastY THEN center_y(img) - box_size ELSE y + 1
                /\ x' = IF lastY THEN x + 1 ELSE x
                /\ apc' = IF lastY /\ lastX THEN "finish" ELSE "loop"
  /\ UNCHANGED img
  /\ UNCHANGED <<nvars, mvars>>

\* except Exception as e: return {"error": str(e)}
Except ==
  /\ apc = "except"
  /\ apc' = "done"
  /\ UNCHANGED <<img, x, y, blue_pixels, total_pixels, avg_r, avg_g, avg_b, record>>
  /\ UNCHANGED <<nvars, mvars>>

\* The code after the loops: averages, ratio, the returned record.
Finish ==
  /\ apc = "finish"
  /\ record' = SuccessRecord(acc)
  /\ apc' = "done"
  /\ UNCHANGED <<img, x, y, blue_pixels, total_pixels, avg_r, avg_g, avg_b>>
  /\ UNCHANGED <<nvars, mvars>>

LoopNext == OpenFails \/ Open \/ Sample \/ Except \/ Finish

SpecLoop == LoopInit /\ [][LoopNext]_vars

----------------------------------------------------------------------------
(* Strings: sequences of one-character strings *)

\* The characters of the modelled file names, in code-point order.
OrdChars == <<"+", "-", ".", "0", "1", "2", "3", "4", "5", "6", "7", "8", "9",
              "A", "_", "a", "e", "f", "g", "i", "j", "l", "m", "n", "o", "p",
              "r", "s", "t", "u", "v", "x", "y", "z">>

Ord(c) == CHOOSE i \in 1..Len(OrdChars) : OrdChars[i] = c

DigitChars == <<"0", "1", "2", "3", "4", "5", "6", "7", "8", "9">>

IsDigit(c) == \E i \in 1..10 : DigitChars[i] = c

DigitValue(c) == (CHOOSE i \in 1..10 : DigitChars[i] = c) - 1

\* s[from:] in Python terms, `from` counted from 1.
Drop(s, from) == SubSeq(s, from, Len(s))

\* s.startswith(p)
StartsWith(s, p) == Len(s) >= Len(p) /\ SubSeq(s, 1, Len(p)) = p

\* s.replace(old, new) for non-empty old: every non-overlapping occurrence,
\* found left to right.
RECURSIVE Replace(_, _, _)
Replace(s, old, new) ==
  IF Len(s) < Len(old) THEN s
  ELSE IF StartsWith(s, old) THEN new \o Replace(Drop(s, Len(old) + 1), old, new)
  ELSE <<Head(s)>> \o Replace(Tail(s), old, new)

\* s.rsplit(sep, 1) for a one-character sep: split at the last sep, or the
\* whole string as the only part.
RSplit1(s, sep) ==
  LET at == { i \in 1..Len(s) : s[i] = sep } IN
  IF at = {} THEN <<s>>
  ELSE LET i == CHOOSE k \in at : \A j \in at : j <= k
       IN <<SubSeq(s, 1, i - 1), Drop(s, i + 1)>>

\* s.lstrip(chars)
RECURSIVE LStrip(_, _)
LStrip(s, chars) ==
  IF s # <<>> /\ Head(s) \in chars THEN LStrip(Tail(s), chars) ELSE s

\* The value of a string of digits and underscores, underscores skipped.
RECURSIVE DigitsValue(_, _)
DigitsValue(s, sofar) ==
  IF s = <<>> THEN sofar
  ELSE IF Head(s) = "_" THEN DigitsValue(Tail(s), sofar)
  ELSE DigitsValue(Tail(s), 10 * sofar + DigitValue(Head(s)))

\* int(s): an optional sign, then digits, single underscores allowed between
\* digits; anything else raises ValueError.  (The file names modelled hold
\* no whitespace.)
ParseInt(s) ==
  LET signed == s # <<>> /\ Head(s) \in {"+", "-"}
      body == IF signed THEN Tail(s) ELSE s
      wellformed ==
        /\ body # <<>>
        /\ \A i \in 1..Len(body) : IsDigit(body[i]) \/ body[i] = "_"
        /\ IsDigit(body[1]) /\ IsDigit(body[Len(body)])
        /\ \A i \in 1..(Len(body) - 1) : ~(body[i] = "_" /\ body[i + 1] = "_")
  IN IF ~wellformed THEN [ok |-> FALSE, val |-> 0]
     ELSE [ok |-> TRUE,
           val |-> IF signed /\ Head(s) = "-" THEN 0 - DigitsValue(body, 0)
                   ELSE DigitsValue(body, 0)]

\* The decimal digits of n >= 0.
RECURSIVE Digits(_)
Digits(n) ==
  IF n < 10 THEN <<DigitChars[n + 1]>>
  ELSE Digits(n \div 10) \o <<DigitChars[(n % 10) + 1]>>

RECURSIVE Zeros(_)
Zeros(n) == IF n <= 0 THEN <<>> ELSE <<"0">> \o Zeros(n - 1)

\* format(n, "+0{width}d"): the sign always, zeros between sign and digits
\* up to the width.
FormatSigned(n, width) ==
  LET d == Digits(IF n < 0 THEN 0 - n ELSE n)
  IN <<IF n < 0 THEN "-" ELSE "+">> \o Zeros(width - 1 - Len(d)) \o d

\* a < b in the order of sorted() on strings.
RECURSIVE LexLess(_, _)
LexLess(a, b) ==
  IF b = <<>> THEN FALSE
  ELSE IF a = <<>> THEN TRUE
  ELSE IF Head(a) # Head(b) THEN Ord(Head(a)) < Ord(Head(b))
  ELSE LexLess(Tail(a), Tail(b))

\* sorted(S)
RECURSIVE Sorted(_)
Sorted(S) ==
  IF S = {} THEN <<>>
  ELSE LET first == CHOOSE a \in S : \A b \in S \ {a} : LexLess(a, b)
       IN <<first>> \o Sorted(S \ {first})

ZoomPrefix == <<"z", "o", "o", "m", "_">>
ElevationPrefix == <<"e", "l", "e", "v", "a", "t", "i", "o", "n", "_">>
DotPng == <<".", "p", "n", "g">>
Ft == <<"f", "t">>
FtDotPng == Ft \o DotPng

----------------------------------------------------------------------------
(* The naming scheme: producer and parsers *)

\* f"zoom_{name}_{water_level:+05d}ft.png"
ZoomFileName(n, lvl) ==
  ZoomPrefix \o n \o <<"_">> \o FormatSigned(lvl, 5) \o FtDotPng

\* f"elevation_{elevation:+06d}ft.png"
ElevationFileName(lvl) == ElevationPrefix \o FormatSigned(lvl, 6) \o FtDotPng

\* parts = filename.replace("zoom_", "").replace(".png", "").rsplit("_", 1)
ZoomParts(fn) == RSplit1(Replace(Replace(fn, ZoomPrefix, <<>>), DotPng, <<>>), "_")

\* The parse of a Mode A file name: test_name and water_level, or the
\* exception that parts[1] or int() raises.
ParseZoom(fn) ==
  LET parts == ZoomParts(fn) IN
  IF Len(parts) < 2
  THEN [ok |-> FALSE, error |-> "IndexError", test_name |-> <<>>, water_level_ft |-> 0]
  ELSE LET n == ParseInt(Replace(Replace(parts[2], Ft, <<>>), <<"+">>, <<>>)) IN
       IF ~n.ok
       THEN [ok |-> FALSE, error |-> "ValueError", test_name |-> <<>>, water_level_ft |-> 0]
       ELSE [ok |-> TRUE, error |-> "", test_name |-> parts[1], water_level_ft |-> n.val]

\* The parse of a Mode B file name: the elevation, or int()'s ValueError.
ParseElevation(fn) ==
  LET elev_str == Replace(Replace(fn, ElevationPrefix, <<>>), FtDotPng, <<>>)
      is_negative == StartsWith(elev_str, <<"-">>)
      stripped == LStrip(LStrip(elev_str, {"+", "-"}), {"0"})
      elev_num == IF stripped = <<>> THEN <<"0">> ELSE stripped
      n == ParseInt(elev_num)
  IN IF ~n.ok THEN [ok |-> FALSE, error |-> "ValueError", elevation |-> 0]
     ELSE [ok |-> TRUE, error |-> "",
           elevation |-> IF is_negative THEN 0 - n.val ELSE n.val]

(* The round trip, one name and one level at a time *)

NameChars == {"z", "o", "m", "_", "A", "7"}

RECURSIVE StringsUpTo(_)
StringsUpTo(n) ==
  IF n = 0 THEN {<<>>}
  ELSE LET shorter == StringsUpTo(n - 1)
       IN shorter \cup { <<c>> \o t : c \in NameChars, t \in { u \in shorter : Len(u) = n - 1 } }

\* The scenario names: non-empty strings of letters, digits and underscores.
Names == StringsUpTo(MaxNameLen) \ {<<>>}

Levels == {0 - MaxLevel, -100, 0, 50, MaxLevel}

NameInit ==
  /\ name \in Names
  /\ level \in Levels
  /\ filename = <<>>
  /\ parsed = NoRecord
  /\ npc = "produce"
  /\ img = NoImage
  /\ x = 0 /\ y = 0
  /\ blue_pixels = 0 /\ total_pixels = 0
  /\ avg_r = 0 /\ avg_g = 0 /\ avg_b = 0
  /\ apc = "idle"
  /\ record = NoRecord
  /\ dir = <<>> /\ pc = "idle" /\ mode = "" /\ listing = {} /\ todo = <<>>
  /\ classified = <<>> /\ results = <<>> /\ written = <<>> /\ runlog = <<>>

\* The producer names the screenshot.
Produce ==
  /\ npc = "produce"
  /\ filename' = ZoomFileName(name, level)
  /\ npc' = "parse"
  /\ UNCHANGED <<name, level, parsed>>
  /\ UNCHANGED <<avars, mvars>>

\* main parses the name.
ParseName ==
  /\ npc = "parse"
  /\ ParseZoom(filename).ok
  /\ parsed' = ParseZoom(filename)
  /\ npc' = "done"
  /\ UNCHANGED <<name, level, filename>>
  /\ UNCHANGED <<avars, mvars>>

\* main raises while parsing the name.
ParseNameRaises ==
  /\ npc = "parse"
  /\ ~ParseZoom(filename).ok
  /\ parsed' = ParseZoom(filename)
  /\ npc' = "raised"
  /\ UNCHANGED <<name, level, filename>>
  /\ UNCHANGED <<avars, mvars>>

NameNext == Produce \/ ParseName \/ ParseNameRaises

SpecName == NameInit /\ [][NameNext]_vars

----------------------------------------------------------------------------
(* main *)

NotesTxt == <<"n", "o", "t", "e", "s", ".", "t", "x", "t">>

\* "zoom_analysis.json" and "analysis_results.json"
ZoomAnalysisJson ==
  ZoomPrefix \o <<"a", "n", "a", "l", "y", "s", "i", "s", ".", "j", "s", "o", "n">>
AnalysisResultsJson ==
  <<"a", "n", "a", "l", "y", "s", "i", "s", "_", "r", "e", "s", "u", "l", "t", "s",
    ".", "j", "s", "o", "n">>

\* The file names a screenshot directory is drawn from: screenshots of both
\* naming schemes, and text files with and without a mode prefix.
ScreenshotNames ==
  { ZoomFileName(<<"A">>, 0), ZoomFileName(<<"A">>, -100),
    ElevationFileName(0), ElevationFileName(-50) }

TextNames == { ZoomPrefix \o NotesTxt, ElevationPrefix \o NotesTxt, NotesTxt }

PoolNames == ScreenshotNames \cup TextNames

\* What a file of the directory may hold.
MainContents == { Corrupt, Uniform(1, 1, 3, Blue), Uniform(10, 1, 3, White) }

\* The content of a written summary: JSON text, not an image.
JsonText == Corrupt

Directories ==
  UNION { { d \in [S -> MainContents] : \A n \in S : n \in TextNames => d[n] = Corrupt }
          : S \in { T \in SUBSET PoolNames : Cardinality(T) <= MaxFiles } }

\* analyze_image on each content, computed once.
AnalysisOf == [c \in MainContents |-> analyze_image(c)]

\* sorted([f for f in os.listdir(SCREENSHOT_DIR) if f.startswith(prefix)])
\* Mutant: the prefix filter dropped.
FilesWithPrefix_all(names, prefix) == Sorted(names)

FilesWithPrefix(names, prefix) == Sorted({ f \in names : StartsWith(f, prefix) })

\* {"test_name": ..., "water_level_ft": ..., **analysis}
ResultRow(p, analysis) ==
  analysis @@ [test_name |-> p.test_name, water_level_ft |-> p.water_level_ft]

\* results[elevation] = analysis
SetKey(d, k, v) == [i \in DOMAIN d \cup {k} |-> IF i = k THEN v ELSE d[i]]

\* with open(output_file, "w") as f: json.dump(results, f, indent=2)
WriteFile(d, fn, content) == [n \in DOMAIN d \cup {fn} |-> IF n = fn THEN content ELSE d[n]]

RunRecord(raised, res, wr) ==
  [listing |-> listing, raised |-> raised, results |-> res, written |-> wr]

MainInit ==
  /\ dir \in Directories
  /\ pc = "start"
  /\ mode = ""
  /\ listing = {}
  /\ todo = <<>>
  /\ classified = <<>>
  /\ results = <<>>
  /\ written = <<>>
  /\ runlog = <<>>
  /\ img = NoImage
  /\ x = 0 /\ y = 0
  /\ blue_pixels = 0 /\ total_pixels = 0
  /\ avg_r = 0 /\ avg_g = 0 /\ avg_b = 0
  /\ apc = "idle"
  /\ record = NoRecord
  /\ name = <<>> /\ level = 0 /\ filename = <<>>
  /\ parsed = NoRecord /\ npc = "idle"

\* zoom_files is not empty: Mode A.
ListZoom ==
  /\ pc = "start"
  /\ FilesWithPrefix(DOMAIN dir, ZoomPrefix) # <<>>
  /\ listing' = DOMAIN dir
  /\ mode' = "zoom"
  /\ todo' = FilesWithPrefix(DOMAIN dir, ZoomPrefix)
  /\ results' = <<>>
  /\ pc' = "zoom_loop"
  /\ UNCHANGED <<dir, classified, written, runlog>>
  /\ UNCHANGED <<avars, nvars>>

\* No zoom file, some elevation file: Mode B.
ListElevation ==
  /\ pc = "start"
  /\ FilesWithPrefix(DOMAIN dir, ZoomPrefix) = <<>>
  /\ FilesWithPrefix(DOMAIN dir, ElevationPrefix) # <<>>
  /\ listing' = DOMAIN dir
  /\ mode' = "elevation"
  /\ todo' = FilesWithPrefix(DOMAIN dir, ElevationPrefix)
  /\ results' = <<>>
  /\ pc' = "elevation_loop"
  /\ UNCHANGED <<dir, classified, written, runlog>>
  /\ UNCHANGED <<avars, nvars>>

\* Neither: "No screenshots found!", return {}.
ListNone ==
  /\ pc = "start"
  /\ FilesWithPrefix(DOMAIN dir, ZoomPrefix) = <<>>
  /\ FilesWithPrefix(DOMAIN dir, ElevationPrefix) = <<>>
  /\ listing' = DOMAIN dir
  /\ mode' = "none"
  /\ results' = <<>>
  /\ pc' = "returned"
  /\ runlog' = Append(runlog, [listing |-> DOMAIN dir, raised |-> FALSE,
                               results |-> <<>>, written |-> <<>>])
  /\ UNCHANGED <<dir, todo, classified, written>>
  /\ UNCHANGED <<avars, nvars>>

\* Mutant: the summary written inside the loop, after every row.
ZoomIter_writes ==
  /\ pc = "zoom_loop"
  /\ todo # <<>>
  /\ ParseZoom(Head(todo)).ok
  /\ classified' = Append(classified, Head(todo))
  /\ results' = Append(results, ResultRow(ParseZoom(Head(todo)), AnalysisOf[dir[Head(todo)]]))
  /\ todo' = Tail(todo)
  /\ dir' = WriteFile(dir, ZoomAnalysisJson, JsonText)
  /\ written' = Append(written, ZoomAnalysisJson)
  /\ UNCHANGED <<pc, mode, listing, runlog>>
  /\ UNCHANGED <<avars, nvars>>

\* One iteration of the Mode A loop: classify, parse, append the row.
ZoomIter ==
  /\ pc = "zoom_loop"
  /\ todo # <<>>
  /\ ParseZoom(Head(todo)).ok
  /\ classified' = Append(classified, Head(todo))
  /\ results' = Append(results, ResultRow(ParseZoom(Head(todo)), AnalysisOf[dir[Head(todo)]]))
  /\ todo' = Tail(todo)
  /\ UNCHANGED <<dir, pc, mode, listing, written, runlog>>
  /\ UNCHANGED <<avars, nvars>>

\* The iteration classifies the file, then parts[1] or int() raises and the
\* exception leaves main.
ZoomIterRaises ==
  /\ pc = "zoom_loop"
  /\ todo # <<>>
  /\ ~ParseZoom(Head(todo)).ok
  /\ classified' = Append(classified, Head(todo))
  /\ pc' = "raised"
  /\ runlog' = Append(runlog, RunRecord(TRUE, results, written))
  /\ UNCHANGED <<dir, mode, listing, todo, results, written>>
  /\ UNCHANGED <<avars, nvars>>

\* After the Mode A loop: write zoom_analysis.json, return results.
ZoomWrite ==
  /\ pc = "zoom_loop"
  /\ todo = <<>>
  /\ dir' = WriteFile(dir, ZoomAnalysisJson, JsonText)
  /\ written' = Append(written, ZoomAnalysisJson)
  /\ pc' = "returned"
  /\ runlog' = Append(runlog, RunRecord(FALSE, results, Append(written, ZoomAnalysisJson)))
  /\ UNCHANGED <<mode, listing, todo, classified, results>>
  /\ UNCHANGED <<avars, nvars>>

\* One iteration of the Mode B loop: classify, parse, store under the elevation.
ElevationIter ==
  /\ pc = "elevation_loop"
  /\ todo # <<>>
  /\ ParseElevation(Head(todo)).ok
  /\ classified' = Append(classified, Head(todo))
  /\ results' = SetKey(results, ParseElevation(Head(todo)).elevation, AnalysisOf[dir[Head(todo)]])
  /\ todo' = Tail(todo)
  /\ UNCHANGED <<dir, pc, mode, listing, written, runlog>>
  /\ UNCHANGED <<avars, nvars>>

\* The iteration classifies the file, then int() raises.
ElevationIterRaises ==
  /\ pc = "elevation_loop"
  /\ todo # <<>>
  /\ ~ParseElevation(Head(todo)).ok
  /\ classified' = Append(classified, Head(todo))
  /\ pc' = "raised"
  /\ runlog' = Append(runlog, RunRecord(TRUE, results, written))
  /\ UNCHANGED <<dir, mode, listing, todo, results, written>>
  /\ UNCHANGED <<avars, nvars>>

\* After the Mode B loop: write analysis_results.json, return results.
ElevationWrite ==
  /\ pc = "elevation_loop"
  /\ todo = <<>>
  /\ dir' = WriteFile(dir, AnalysisResultsJson, JsonText)
  /\ written' = Append(written, AnalysisResultsJson)
  /\ pc' = "returned"
  /\ runlog' = Append(runlog, RunRecord(FALSE, results, Append(written, AnalysisResultsJson)))
  /\ UNCHANGED <<mode, listing, todo, classified, results>>
  /\ UNCHANGED <<avars, nvars>>

\* main is run again on the same directory.
Rerun ==
  /\ pc \in {"returned", "raised"}
  /\ Len(runlog) < MaxRuns
  /\ pc' = "start"
  /\ mode' = ""
  /\ listing' = {}
  /\ todo' = <<>>
  /\ classified' = <<>>
  /\ results' = <<>>
  /\ written' = <<>>
  /\ UNCHANGED <<dir, runlog>>
  /\ UNCHANGED <<avars, nvars>>

Next ==
  \/ ListZoom \/ ListElevation \/ ListNone
  \/ ZoomIter \/ ZoomIterRaises \/ ZoomWrite
  \/ ElevationIter \/ ElevationIterRaises \/ ElevationWrite
  \/ Rerun

Spec == MainInit /\ [][Next]_vars

----------------------------------------------------------------------------
(* Properties of analyze_image (SpecLoop) *)

Returned == apc = "done"
ReturnedSuccess == apc = "done" /\ ~IsError(record)

\* The coordinates of the sample window that lie inside a w x h image.
WindowCoords(w, h) ==
  { c \in ((w \div 2) - 50 .. (w \div 2) + 49) \X ((h \div 2) - 50 .. (h \div 2) + 49) :
      0 <= c[1] /\ c[1] < w /\ 0 <= c[2] /\ c[2] < h }

\* C1 as stated: in every success record with total_pixels > 0, has_flooding
\* is true exactly when the blue_ratio field of the record (the ratio rounded
\* to 4 places) is greater than 0.1.
C1_FloodingIffRoundedField ==
  (ReturnedSuccess /\ record.total_pixels > 0)
    => (record.has_flooding <=> record.blue_ratio > 1000)

\* C1 amended: in every success record with total_pixels > 0, has_flooding
\* is true exactly when the unrounded ratio blue_pixels / total_pixels is
\* greater than 0.1; the rounded blue_ratio field is then at least 0.1, and a
\* field greater than 0.1 implies has_flooding.
C1_FloodingIffExactRatio ==
  (ReturnedSuccess /\ record.total_pixels > 0)
    => /\ record.has_flooding <=> 10 * record.blue_pixels > record.total_pixels
       /\ record.has_flooding => record.blue_ratio >= 1000
       /\ record.blue_ratio > 1000 => record.has_flooding

\* C1 witness: a flooded record whose rounded field is exactly 0.1
\* (201 blue pixels of 2009).
C1_Witness ==
  /\ ReturnedSuccess
  /\ record.total_pixels = 2009 /\ record.blue_pixels = 201
  /\ record.has_flooding /\ record.blue_ratio = 1000

\* C3: an image of width and height >= 1 with at least 3 channels yields a
\* success record whose total_pixels is the number of window coordinates
\* inside the image, which is min(w, 100) * min(h, 100).
C3_TotalIsClippedWindow ==
  (Returned /\ img.bands >= 3 /\ img.w >= 1 /\ img.h >= 1)
    => /\ ~IsError(record)
       /\ record.total_pixels = Cardinality(WindowCoords(img.w, img.h))
       /\ record.total_pixels = Min(img.w, 100) * Min(img.h, 100)

\* C3 witness: a 10 x 10 image returns total_pixels = 100.
C3_Witness ==
  /\ ReturnedSuccess
  /\ img.w = 10 /\ img.h = 10 /\ img.bands >= 3
  /\ record.total_pixels = 100

\* The flood-colour predicate of the claim, on a colour triple.
FloodColour(c) == c[3] > 100 /\ 10 * c[3] > 13 * c[1] /\ 10 * c[3] > 11 * c[2]

ColourAt(im, c) == IF c[1] * im.h + c[2] < im.nfirst THEN im.c1 ELSE im.c2

\* C5: blue_pixels counts exactly the sampled pixels with b > 100, b > 1.3 r
\* and b > 1.1 g; for a uniformly coloured image with at least 3 channels it
\* equals total_pixels when the colour satisfies the predicate (ratio 1.0,
\* has_flooding true) and 0 otherwise (has_flooding false); (0,0,100) is not
\* counted, (0,0,101) and (0,0,255) are, (255,255,255) is not.
C5_BlueCountFollowsPredicate ==
  (Returned /\ img.bands >= 3)
    => /\ ~IsError(record)
       /\ record.blue_pixels =
            Cardinality({ c \in WindowCoords(img.w, img.h) : FloodColour(ColourAt(img, c)) })
       /\ (img.c1 = img.c2 /\ FloodColour(img.c2))
            => /\ record.blue_pixels = record.total_pixels
               /\ record.blue_ratio = 10000
               /\ record.has_flooding
       /\ (img.c1 = img.c2 /\ ~FloodColour(img.c2))
            => /\ record.blue_pixels = 0
               /\ ~record.has_flooding
       /\ img.c1 = img.c2
            => /\ img.c2 = <<0, 0, 100>> => record.blue_pixels = 0
               /\ img.c2 \in {<<0, 0, 101>>, <<0, 0, 255>>}
                    => record.blue_pixels = record.total_pixels
               /\ img.c2 = <<255, 255, 255>> => ~record.has_flooding

\* C5 witness: a uniform (0,0,101) image has every sampled pixel counted.
C5_Witness ==
  /\ ReturnedSuccess
  /\ img.c1 = img.c2 /\ img.c2 = <<0, 0, 101>>
  /\ record.total_pixels > 0
  /\ record.blue_pixels = record.total_pixels

\* C6: at every step of the sampling loop and in the returned record
\* 0 <= blue_pixels <= total_pixels, and the returned blue_ratio lies in
\* [0, 1], being 0 when total_pixels is 0.
C6_CountersBounded ==
  /\ 0 <= blue_pixels /\ blue_pixels <= total_pixels
  /\ ReturnedSuccess
       => /\ 0 <= record.blue_pixels /\ record.blue_pixels <= record.total_pixels
          /\ 0 <= record.blue_ratio /\ record.blue_ratio <= 10000
          /\ record.total_pixels = 0 => record.blue_ratio = 0

\* C6 witness: the loop is under way with some but not all sampled pixels
\* counted as blue.
C6_Witness ==
  /\ apc = "loop"
  /\ 0 < blue_pixels /\ blue_pixels < total_pixels

\* C8: an image whose pixels have fewer than 3 channels returns the success
\* record with all counters zero, avg_color (0, 0, 0) and has_flooding false.
C8_FewChannelsZeroRecord ==
  (Returned /\ IsImage(img) /\ img.bands < 3)
    => record = [blue_pixels |-> 0, total_pixels |-> 0, blue_ratio |-> 0,
                 avg_color |-> <<0, 0, 0>>, has_flooding |-> FALSE]

----------------------------------------------------------------------------
(* Properties of the naming scheme (SpecName) *)

\* C7: the file name the producer builds from a scenario name and a water
\* level is parsed by main back to that name and that level.
C7_NameRoundTrip ==
  npc \in {"done", "raised"}
    => /\ npc = "done"
       /\ parsed.test_name = name
       /\ parsed.water_level_ft = level

----------------------------------------------------------------------------
(* Properties of main (Spec) *)

ZoomListed == { f \in listing : StartsWith(f, ZoomPrefix) }
ElevationListed == { f \in listing : StartsWith(f, ElevationPrefix) }

\* The files the run selects: the zoom files if there are any, else the
\* elevation files.
Selected == IF ZoomListed # {} THEN ZoomListed ELSE ElevationListed

Range(seq) == { seq[i] : i \in 1..Len(seq) }

RunEnded == pc \in {"returned", "raised"}

\* The classifier output the run recorded for its i-th classified file.
RecordedFor(i) ==
  IF mode = "zoom" THEN results[i]
  ELSE results[ParseElevation(classified[i]).elevation]

\* C2: when one selected file is not an image, whatever its name after the
\* mode's prefix, the run completes without raising, holds an error record
\* for that file and a non-error record for every other selected file, and
\* writes the summary file.
C2_NonImageFileAbsorbed ==
  (RunEnded /\ mode \in {"zoom", "elevation"}
     /\ Cardinality({ f \in Selected : ~IsImage(dir[f]) }) = 1)
    => /\ pc = "returned"
       /\ written # <<>>
       /\ Range(classified) = Selected
       /\ \A i \in 1..Len(classified) :
            IsError(RecordedFor(i)) <=> ~IsImage(dir[classified[i]])

\* C4: every run takes one outcome from the listing.  With a zoom file
\* listed, only zoom files are classified and no file but zoom_analysis.json
\* is written, and a run that returns has classified them all and written
\* it; else with an elevation file listed, the same for the elevation files
\* and analysis_results.json; else nothing is classified, the result is
\* empty and nothing is written.
C4_OneOutcomePerRun ==
  pc # "start"
    => /\ ZoomListed # {}
            => /\ Range(classified) \subseteq ZoomListed
               /\ Range(written) \subseteq {ZoomAnalysisJson}
               /\ pc = "returned"
                    => Range(classified) = ZoomListed /\ written = <<ZoomAnalysisJson>>
       /\ (ZoomListed = {} /\ ElevationListed # {})
            => /\ Range(classified) \subseteq ElevationListed
               /\ Range(written) \subseteq {AnalysisResultsJson}
               /\ pc = "returned"
                    => Range(classified) = ElevationListed /\ written = <<AnalysisResultsJson>>
       /\ (ZoomListed = {} /\ ElevationListed = {})
            => /\ pc = "returned"
               /\ classified = <<>> /\ results = <<>> /\ written = <<>>

\* C4 witness: a run over a directory with zoom and elevation files has
\* returned, having classified the zoom files only and written
\* zoom_analysis.json only.
C4_Witness ==
  /\ pc = "returned"
  /\ ZoomListed # {} /\ ElevationListed # {}
  /\ Range(classified) = ZoomListed
  /\ written = <<ZoomAnalysisJson>>

\* C9: a run writes the summary file at most once, and only after every
\* selected file has been classified and its name parsed; a run that aborted
\* in the batch loop has written nothing.
C9_SummaryWrittenOnceAtEnd ==
  /\ Len(written) <= 1
  /\ written # <<>>
       => /\ todo = <<>>
          /\ Range(classified) = Selected
          /\ Len(classified) = Cardinality(Selected)
          /\ \A f \in Selected :
               IF mode = "zoom" THEN ParseZoom(f).ok ELSE ParseElevation(f).ok
  /\ pc = "raised" => written = <<>>

\* C9 witness: a run aborted at its second file or later, and wrote nothing.
C9_Witness ==
  /\ pc = "raised"
  /\ Len(classified) >= 2
  /\ written = <<>>

\* A file name the producer builds in Mode A.
WellFormedZoomName(f) ==
  /\ ParseZoom(f).ok
  /\ f = ZoomFileName(ParseZoom(f).test_name, ParseZoom(f).water_level_ft)

\* C10: on a directory of well-formed Mode A screenshots every run in
\* succession completes without raising and returns the rows of the first
\* run, one per screenshot.
C10_RerunIdempotent ==
  (/\ runlog # <<>>
   /\ runlog[1].listing # {}
   /\ \A f \in runlog[1].listing : WellFormedZoomName(f) /\ IsImage(dir[f]))
    => \A i \in 1..Len(runlog) :
         /\ ~runlog[i].raised
         /\ runlog[i].results = runlog[1].results
         /\ Len(runlog[i].results) = Cardinality(runlog[1].listing)

====
